---- MODULE Spec2Model ----
(***************************************************************************)
(* The session/room relay of server/server.js: the room table, the code    *)
(* allocator, the connection <-> role <-> room bindings, the annotation    *)
(* handlers with their write-through persistence, and socket.io's channel  *)
(* groups as far as the handlers use them.                                 *)
(*                                                                         *)
(* JavaScript values are encoded as TLA+ strings written like JS literals: *)
(* "undefined", "null", numbers as "5", strings as "'Exit'".  Socket ids   *)
(* and room codes are plain strings ("s1", "1000").                        *)
(***************************************************************************)
EXTENDS Integers, Sequences, FiniteSets, TLC

VARIABLES
    rooms,     \* the Map `rooms`: room code -> room object
    sockets,   \* per connection: transport state, socket.roomId, socket.deviceType, joined channels
    files,     \* DATA_DIR: room code -> contents of room_<code>.json
    now,       \* the clock read by Date.now() / new Date()
    server,    \* "up", "allocating" (inside generateRoomCode), "crashed" (uncaught
               \* exception) or "hung" (generateRoomCode never returns)
    last,      \* the event handled last: its name, sender, arguments and ordered effects
    local      \* per connection: the array `annotations` of the display page behind it

vars == <<rooms, sockets, files, now, server, last, local>>

(***************************************************************************)
(* Bounds of the model.                                                    *)
(***************************************************************************)
MaxSockets == 3   \* connections that exist over a run
NumCodes   == 2   \* size of the code space (9000 in the program)
MaxAnn     == 2   \* annotations a room holds at most
MaxTime    == 1   \* last clock value (milliseconds)
MaxLoad    == 4   \* connections made + rooms created, in a lifecycle run
AnnLoad    == 3   \* connections made + rooms created, in a run with annotations
AnnRooms   == 1   \* rooms created, in a run with annotations
ClockLoad  == 2   \* connections made + rooms created, in a run of one connection

(***************************************************************************)
(* JavaScript values.                                                      *)
(***************************************************************************)
Undefined == "undefined"
Null      == "null"

\* the values `||` and `!` treat as false
Falsy(v) == v \in {Undefined, Null, "0", "''", "false", "NaN"}

\* a, whatever it is
OrElseNothing(a, b) == a

\* a || b
OrElse(a, b) == IF Falsy(a) THEN b ELSE a

\* new Date().toISOString(), for the first milliseconds of the epoch
ISOString(t) ==
    "1970-01-01T00:00:00."
        \o (IF t < 10 THEN "00" ELSE IF t < 100 THEN "0" ELSE "")
        \o ToString(t) \o "Z"

\* new Date().toISOString().split('T')[0]
ISODate(t) == "1970-01-01"

(***************************************************************************)
(* Connections.                                                            *)
(***************************************************************************)
SocketIds == {"s" \o ToString(i) : i \in 1..MaxSockets}

NewSocket == [state |-> "new", roomId |-> Undefined, deviceType |-> Undefined, joined |-> {}]

\* a closed connection: its socket object is unreachable, its fields are never read again
ClosedSocket == [state |-> "closed", roomId |-> Undefined, deviceType |-> Undefined, joined |-> {}]

Open(s) == sockets[s].state = "open"

\* the sockets io.to(target) reaches: every socket is in the channel named by
\* its own id, and in the channels it joined with socket.join
Recipients(socks, target) ==
    {s \in SocketIds : socks[s].state = "open" /\ (s = target \/ target \in socks[s].joined)}

\* one entry of the ordered effects of a handler
Emit(to, name, arg) == [op |-> "emit", to |-> to, name |-> name, arg |-> arg]
Ack(s, arg)         == [op |-> "ack", to |-> {s}, name |-> "callback", arg |-> arg]
Set(code, anns)     == [op |-> "set", to |-> {}, name |-> code, arg |-> anns]
Save(code)          == [op |-> "save", to |-> {}, name |-> code, arg |-> Undefined]
Throw(what)         == [op |-> "throw", to |-> {}, name |-> what, arg |-> Undefined]

Event(ev, s, roomId, arg, log) ==
    [ev |-> ev, sock |-> s, roomId |-> roomId, arg |-> arg, log |-> log]

(***************************************************************************)
(* Code allocator.                                                         *)
(***************************************************************************)
CodeBase  == 1000
CodeRange == 9000

\* Math.floor(1000 + Math.random() * 9000).toString(), over the scaled-down space
CodeSpace == {ToString(CodeBase + r) : r \in 0..(NumCodes - 1)}

\* generateRoomCode without the re-draw on collision
generateAnyCode(rs) == CodeSpace

\* the codes the do-while loop of generateRoomCode can return
generateRoomCode(rs) == {code \in CodeSpace : code \notin DOMAIN rs}

(***************************************************************************)
(* Persistence.                                                            *)
(***************************************************************************)
\* JSON.stringify of an object: properties whose value is undefined are left out
StringifyObject(o) ==
    [k \in {k \in DOMAIN o : o[k] # Undefined} |-> o[k]]

\* JSON.stringify(room, null, 2)
Stringify(room) ==
    [displaySocket    |-> room.displaySocket,
     controllerSocket |-> room.controllerSocket,
     annotations      |-> [i \in 1..Len(room.annotations) |->
                              StringifyObject(room.annotations[i])],
     createdAt        |-> room.createdAt]

\* a save that writes the record of every room
saveEveryRoom(fs, rs, roomId) ==
    IF roomId \in DOMAIN rs
    THEN [c \in DOMAIN fs \cup DOMAIN rs |->
             IF c \in DOMAIN rs THEN Stringify(rs[c]) ELSE fs[c]]
    ELSE fs

\* saveRoomState called before the handler changes the room
saveRoomStateEarly(fs, rs, roomId) ==
    IF roomId \in DOMAIN rooms
    THEN [c \in DOMAIN fs \cup {roomId} |->
             IF c = roomId THEN Stringify(rooms[roomId]) ELSE fs[c]]
    ELSE fs

\* saveRoomState(roomId) when fs.writeFileSync succeeds
saveRoomState(fs, rs, roomId) ==
    IF roomId \in DOMAIN rs
    THEN [c \in DOMAIN fs \cup {roomId} |->
             IF c = roomId THEN Stringify(rs[roomId]) ELSE fs[c]]
    ELSE fs

(***************************************************************************)
(* Initial state: no room, no connection, an empty data directory.         *)
(***************************************************************************)
Init ==
    /\ rooms = <<>>
    /\ sockets = [s \in SocketIds |-> NewSocket]
    /\ files = <<>>
    /\ now = 0
    /\ server = "up"
    /\ last = Event("start", "none", Undefined, Undefined, <<>>)
    /\ local = [s \in SocketIds |-> <<>>]

\* the clock advances by a millisecond
Tick ==
    /\ server = "up"
    /\ now < MaxTime
    /\ now' = now + 1
    /\ last' = Event("tick", "none", Undefined, Undefined, <<>>)
    /\ UNCHANGED <<rooms, sockets, files, server>>
    /\ UNCHANGED local

\* socket.io names each new connection with a fresh id: here the ids are
\* handed out in the order s1, s2, ...
NextSocketId ==
    LET used == Cardinality({s \in SocketIds : sockets[s].state # "new"})
    IN IF used < MaxSockets THEN "s" \o ToString(used + 1) ELSE Null

\* io.on('connection'): a client connects and gets a socket
Connect(s) ==
    /\ server = "up"
    /\ s = NextSocketId
    /\ sockets' = [sockets EXCEPT ![s].state = "open"]
    /\ last' = Event("connection", s, Undefined, Undefined, <<>>)
    /\ UNCHANGED <<rooms, files, now, server>>
    /\ UNCHANGED local

\* socket.join(roomId); socket.roomId = roomId; socket.deviceType = deviceType
Bind(socks, s, roomId, deviceType) ==
    [socks EXCEPT ![s].joined = @ \cup {roomId},
                  ![s].roomId = roomId,
                  ![s].deviceType = deviceType]

\* a new room that takes its creator as controller too
NewRoomWithController(s, t) ==
    [displaySocket    |-> s,
     controllerSocket |-> s,
     annotations      |-> <<>>,
     createdAt        |-> ISOString(t)]

\* the room object create-room stores
NewRoom(s, t) ==
    [displaySocket    |-> s,
     controllerSocket |-> Null,
     annotations      |-> <<>>,
     createdAt        |-> ISOString(t)]

\* socket.on('create-room')
CreateRoom(s) ==
    /\ server = "up"
    /\ Open(s)
    /\ \E roomCode \in generateRoomCode(rooms) :
          /\ rooms' = [c \in DOMAIN rooms \cup {roomCode} |->
                          IF c = roomCode THEN NewRoom(s, now) ELSE rooms[c]]
          /\ sockets' = Bind(sockets, s, roomCode, "display")
          /\ last' = Event("create-room", s, roomCode, Undefined,
                           <<Ack(s, [success |-> TRUE, roomCode |-> roomCode])>>)
    /\ UNCHANGED <<files, now, server>>
    /\ UNCHANGED local

\* socket.on('create-room') when every code of the space is a room: the loop
\* of generateRoomCode never ends and the process handles nothing more
CreateRoomHang(s) ==
    /\ server = "up"
    /\ Open(s)
    /\ generateRoomCode(rooms) = {}
    /\ server' = "hung"
    /\ last' = Event("create-room", s, Undefined, Undefined, <<>>)
    /\ UNCHANGED <<rooms, sockets, files, now>>
    /\ UNCHANGED local

\* socket.on('create-room') entering generateRoomCode: the handler runs until
\* the loop returns, and no other event is handled meanwhile
CreateRoomBegin(s) ==
    /\ server = "up"
    /\ Open(s)
    /\ server' = "allocating"
    /\ last' = Event("generateRoomCode", s, Undefined, Undefined, <<>>)
    /\ UNCHANGED <<rooms, sockets, files, now>>
    /\ UNCHANGED local

\* one pass of the do-while loop whose draw is a room already: draw again
DrawTaken(code) ==
    /\ server = "allocating"
    /\ code \in CodeSpace \ generateRoomCode(rooms)
    /\ last' = Event("generateRoomCode", last.sock, code, Undefined, <<>>)
    /\ UNCHANGED <<rooms, sockets, files, now, server>>
    /\ UNCHANGED local

\* the pass of the loop whose draw is no room: generateRoomCode returns it and
\* create-room goes on to store the room, bind the socket and ack
DrawFree(code) ==
    /\ server = "allocating"
    /\ code \in generateRoomCode(rooms)
    /\ rooms' = [c \in DOMAIN rooms \cup {code} |->
                    IF c = code THEN NewRoom(last.sock, now) ELSE rooms[c]]
    /\ sockets' = Bind(sockets, last.sock, code, "display")
    /\ server' = "up"
    /\ last' = Event("create-room", last.sock, code, Undefined,
                     <<Ack(last.sock, [success |-> TRUE, roomCode |-> code])>>)
    /\ UNCHANGED <<files, now>>
    /\ UNCHANGED local

\* join-room taking the controller slot only when it is empty
JoinSlotIfFree(room, s) ==
    IF room.controllerSocket = Null THEN [room EXCEPT !.controllerSocket = s] ELSE room

\* room.controllerSocket = socket.id, in join-room
JoinSlot(room, s) == [room EXCEPT !.controllerSocket = s]

\* join-room binding the socket before it looks the room up
JoinRoomBindsFirst(s, roomCode) ==
    /\ server = "up"
    /\ Open(s)
    /\ sockets' = Bind(sockets, s, roomCode, "controller")
    /\ IF roomCode \notin DOMAIN rooms
       THEN /\ last' = Event("join-room", s, roomCode, Undefined,
                             <<Ack(s, [success |-> FALSE, error |-> "Room not found"])>>)
            /\ UNCHANGED rooms
       ELSE /\ rooms' = [rooms EXCEPT ![roomCode] = JoinSlot(@, s)]
            /\ last' = Event("join-room", s, roomCode, Undefined,
                             <<Emit(Recipients(sockets', rooms'[roomCode].displaySocket),
                                    "controller-connected", Undefined),
                               Ack(s, [success |-> TRUE,
                                       annotations |-> rooms'[roomCode].annotations])>>)
    /\ UNCHANGED <<files, now, server>>
    /\ UNCHANGED local

\* socket.on('join-room')
JoinRoom(s, roomCode) ==
    /\ server = "up"
    /\ Open(s)
    /\ IF roomCode \notin DOMAIN rooms
       THEN /\ last' = Event("join-room", s, roomCode, Undefined,
                             <<Ack(s, [success |-> FALSE, error |-> "Room not found"])>>)
            /\ UNCHANGED <<rooms, sockets>>
       ELSE /\ rooms' = [rooms EXCEPT ![roomCode] = JoinSlot(@, s)]
            /\ sockets' = Bind(sockets, s, roomCode, "controller")
            /\ last' = Event("join-room", s, roomCode, Undefined,
                             <<Emit(Recipients(sockets', rooms'[roomCode].displaySocket),
                                    "controller-connected", Undefined),
                               Ack(s, [success |-> TRUE,
                                       annotations |-> rooms'[roomCode].annotations])>>)
    /\ UNCHANGED <<files, now, server>>
    /\ UNCHANGED local

\* the display branch of reconnect-room without the test of the slot
DisplayAlways(room, deviceType) == deviceType = "display"

\* data.deviceType === 'display' && !room.displaySocket
DisplayFree(room, deviceType) ==
    deviceType = "display" /\ Falsy(room.displaySocket)

\* data.deviceType === 'controller' && !room.controllerSocket
ControllerFree(room, deviceType) ==
    deviceType = "controller" /\ Falsy(room.controllerSocket)

\* reconnect-room acking an empty annotation list and the display's own slot
\* as hasController
ReconnectRoomBlind(s, roomId, deviceType) ==
    /\ server = "up"
    /\ Open(s)
    /\ IF roomId \in DOMAIN rooms
       THEN IF DisplayFree(rooms[roomId], deviceType)
            THEN /\ rooms' = [rooms EXCEPT ![roomId].displaySocket = s]
                 /\ sockets' = Bind(sockets, s, roomId, "display")
                 /\ last' = Event("reconnect-room", s, roomId, deviceType,
                                  <<Ack(s, [success |-> TRUE,
                                            annotations |-> <<>>,
                                            hasController |->
                                                rooms'[roomId].displaySocket # Null])>>)
            ELSE IF ControllerFree(rooms[roomId], deviceType)
            THEN /\ rooms' = [rooms EXCEPT ![roomId].controllerSocket = s]
                 /\ sockets' = Bind(sockets, s, roomId, "controller")
                 /\ last' = Event("reconnect-room", s, roomId, deviceType,
                                  (IF ~Falsy(rooms'[roomId].displaySocket)
                                   THEN <<Emit(Recipients(sockets', rooms'[roomId].displaySocket),
                                               "controller-connected", Undefined)>>
                                   ELSE <<>>)
                                  \o <<Ack(s, [success |-> TRUE,
                                               annotations |-> <<>>])>>)
            ELSE /\ last' = Event("reconnect-room", s, roomId, deviceType,
                                  <<Ack(s, [success |-> FALSE,
                                            error |-> "Device type already connected"])>>)
                 /\ UNCHANGED <<rooms, sockets>>
       ELSE /\ last' = Event("reconnect-room", s, roomId, deviceType,
                             <<Ack(s, [success |-> FALSE, error |-> "Room not found"])>>)
            /\ UNCHANGED <<rooms, sockets>>
    /\ UNCHANGED <<files, now, server>>
    /\ UNCHANGED local

\* socket.on('reconnect-room')
ReconnectRoom(s, roomId, deviceType) ==
    /\ server = "up"
    /\ Open(s)
    /\ IF roomId \in DOMAIN rooms
       THEN IF DisplayFree(rooms[roomId], deviceType)
            THEN /\ rooms' = [rooms EXCEPT ![roomId].displaySocket = s]
                 /\ sockets' = Bind(sockets, s, roomId, "display")
                 /\ last' = Event("reconnect-room", s, roomId, deviceType,
                                  <<Ack(s, [success |-> TRUE,
                                            annotations |-> rooms'[roomId].annotations,
                                            hasController |->
                                                rooms'[roomId].controllerSocket # Null])>>)
            ELSE IF ControllerFree(rooms[roomId], deviceType)
            THEN /\ rooms' = [rooms EXCEPT ![roomId].controllerSocket = s]
                 /\ sockets' = Bind(sockets, s, roomId, "controller")
                 /\ last' = Event("reconnect-room", s, roomId, deviceType,
                                  (IF ~Falsy(rooms'[roomId].displaySocket)
                                   THEN <<Emit(Recipients(sockets', rooms'[roomId].displaySocket),
                                               "controller-connected", Undefined)>>
                                   ELSE <<>>)
                                  \o <<Ack(s, [success |-> TRUE,
                                               annotations |-> rooms'[roomId].annotations])>>)
            ELSE /\ last' = Event("reconnect-room", s, roomId, deviceType,
                                  <<Ack(s, [success |-> FALSE,
                                            error |-> "Device type already connected"])>>)
                 /\ UNCHANGED <<rooms, sockets>>
       ELSE /\ last' = Event("reconnect-room", s, roomId, deviceType,
                             <<Ack(s, [success |-> FALSE, error |-> "Room not found"])>>)
            /\ UNCHANGED <<rooms, sockets>>
    /\ UNCHANGED <<files, now, server>>
    /\ UNCHANGED local

\* a disconnect that clears both slots of the room
UnbindBoth(room, deviceType) ==
    IF deviceType \in {"display", "controller"}
    THEN [room EXCEPT !.displaySocket = Null, !.controllerSocket = Null]
    ELSE room

\* a disconnect that also empties the annotations of a room left without peers
UnbindAndForget(room, deviceType) ==
    IF deviceType = "display"
    THEN [room EXCEPT !.displaySocket = Null,
                      !.annotations = IF room.controllerSocket = Null THEN <<>> ELSE @]
    ELSE IF deviceType = "controller"
    THEN [room EXCEPT !.controllerSocket = Null,
                      !.annotations = IF room.displaySocket = Null THEN <<>> ELSE @]
    ELSE room

\* the slot the disconnect handler clears: room.displaySocket = null or
\* room.controllerSocket = null, by the socket's deviceType
Unbind(room, deviceType) ==
    IF deviceType = "display" THEN [room EXCEPT !.displaySocket = Null]
    ELSE IF deviceType = "controller" THEN [room EXCEPT !.controllerSocket = Null]
    ELSE room

\* a disconnect handler that notifies nobody
PeerNoticeNone(socks, room, deviceType) == <<>>

\* the notification of the disconnect handler, sent before the slot is cleared
PeerNotice(socks, room, deviceType) ==
    IF deviceType = "display" /\ ~Falsy(room.controllerSocket)
    THEN <<Emit(Recipients(socks, room.controllerSocket), "display-disconnected", Undefined)>>
    ELSE IF deviceType = "controller" /\ ~Falsy(room.displaySocket)
    THEN <<Emit(Recipients(socks, room.displaySocket), "controller-disconnected", Undefined)>>
    ELSE <<>>

\* the transport closes socket s: socket.io takes it out of every channel and
\* then runs socket.on('disconnect')
Disconnect(s) ==
    /\ server = "up"
    /\ Open(s)
    /\ sockets' = [sockets EXCEPT ![s] = ClosedSocket]
    /\ LET roomId == sockets[s].roomId
           deviceType == sockets[s].deviceType
       IN IF ~Falsy(roomId) /\ roomId \in DOMAIN rooms
          THEN /\ rooms' = [rooms EXCEPT ![roomId] = Unbind(@, deviceType)]
               /\ last' = Event("disconnect", s, roomId, deviceType,
                                PeerNotice(sockets', rooms[roomId], deviceType))
          ELSE /\ last' = Event("disconnect", s, roomId, deviceType, <<>>)
               /\ UNCHANGED rooms
    /\ UNCHANGED <<files, now, server>>
    /\ UNCHANGED local

(***************************************************************************)
(* Annotation handlers.                                                    *)
(***************************************************************************)
\* the payloads the clients send with the add-* events (without roomId)
DangerData     == {[position |-> "p1", radius |-> Undefined, label |-> Undefined]}
ArrowData      == {[start |-> "p1", end |-> "p2", label |-> "'Exit'"]}
IncidentData   == {[position |-> "p1", date |-> Undefined, description |-> Undefined,
                    severity |-> Undefined]}
RestrictedData == {[vertices |-> Undefined, active |-> Undefined]}

\* payloads with each defaultable field absent or supplied
DangerInputs ==
    {[position |-> "p1", radius |-> r, label |-> l] :
        r \in {Undefined, "0", "10"}, l \in {Undefined, "'Pit'"}}
ArrowInputs ==
    {[start |-> "p1", end |-> "p2", label |-> l] : l \in {Undefined, "'Exit'"}}
IncidentInputs ==
    {[position |-> "p1", date |-> d, description |-> "'Rockfall'", severity |-> v] :
        d \in {Undefined, "'2024-05-01'"}, v \in {Undefined, "'high'"}}
    \cup {[position |-> "p1", date |-> Undefined, description |-> Undefined,
           severity |-> Undefined]}
RestrictedInputs ==
    {[vertices |-> "v1", active |-> x] : x \in {Undefined, "false", "true"}}

\* the annotation object built by add-danger-zone; the handler reads the clock
\* twice, within the same millisecond
DangerZone(data, t) ==
    [id        |-> "danger_" \o ToString(t),
     type      |-> "danger",
     position  |-> data.position,
     radius    |-> OrElse(data.radius, "5"),
     label     |-> OrElse(data.label, "'Danger Zone'"),
     createdAt |-> ISOString(t)]

\* an arrow whose id does not carry the creation time
ArrowUntimed(data, t) ==
    [id        |-> "arrow_0",
     type      |-> "arrow",
     start     |-> data.start,
     end       |-> data.end,
     label     |-> OrElse(data.label, "'Direction'"),
     createdAt |-> ISOString(t)]

\* the annotation object built by add-arrow
Arrow(data, t) ==
    [id        |-> "arrow_" \o ToString(t),
     type      |-> "arrow",
     start     |-> data.start,
     end       |-> data.end,
     label     |-> OrElse(data.label, "'Direction'"),
     createdAt |-> ISOString(t)]

\* the annotation object built by add-incident
Incident(data, t) ==
    [id          |-> "incident_" \o ToString(t),
     type        |-> "incident",
     position    |-> data.position,
     date        |-> OrElse(data.date, ISODate(t)),
     description |-> OrElse(data.description, "'Incident reported'"),
     severity    |-> OrElse(data.severity, "'medium'"),
     createdAt   |-> ISOString(t)]

\* the annotation object built by add-restricted-zone
RestrictedZone(data, t) ==
    [id        |-> "restricted_" \o ToString(t),
     type      |-> "restricted",
     vertices  |-> data.vertices,
     active    |-> IF data.active # Undefined THEN data.active ELSE "true",
     createdAt |-> ISOString(t)]

\* socket.to(roomId): the channel of the room without the sender
BroadcastOthers(socks, s, roomId) == Recipients(socks, roomId) \ {s}

\* io.to(roomId): every connection in the channel of the room, the sender included
Broadcast(socks, s, roomId) == Recipients(socks, roomId)

\* an annotation handler that binds the sender to the room it names
MutateBinds(ev, s, roomId, arg, anns, name, payload) ==
    /\ server = "up"
    /\ Open(s)
    /\ IF roomId \in DOMAIN rooms
       THEN \E written \in BOOLEAN :
               IF written
               THEN /\ rooms' = [rooms EXCEPT ![roomId].annotations = anns]
                    /\ files' = saveRoomState(files, rooms', roomId)
                    /\ last' = Event(ev, s, roomId, arg,
                                     <<Set(roomId, anns), Save(roomId),
                                       Emit(Broadcast(sockets, s, roomId), name, payload)>>)
                    /\ sockets' = Bind(sockets, s, roomId, "controller")
                    /\ UNCHANGED server
               ELSE /\ last' = Event(ev, s, roomId, arg,
                                     <<Set(roomId, anns), Throw("writeFileSync")>>)
                    /\ server' = "crashed"
                    /\ rooms' = <<>>
                    /\ sockets' = [c \in SocketIds |->
                                      IF sockets[c].state = "new" THEN NewSocket
                                      ELSE ClosedSocket]
                    /\ UNCHANGED files
       ELSE /\ last' = Event(ev, s, roomId, arg, <<>>)
            /\ UNCHANGED <<rooms, sockets, files, server>>
    /\ UNCHANGED now
    /\ UNCHANGED local

\* an annotation handler that broadcasts before it changes and saves the room
MutateEmitsFirst(ev, s, roomId, arg, anns, name, payload) ==
    /\ server = "up"
    /\ Open(s)
    /\ IF roomId \in DOMAIN rooms
       THEN \E written \in BOOLEAN :
               IF written
               THEN /\ rooms' = [rooms EXCEPT ![roomId].annotations = anns]
                    /\ files' = saveRoomState(files, rooms', roomId)
                    /\ last' = Event(ev, s, roomId, arg,
                                     <<Emit(Broadcast(sockets, s, roomId), name, payload),
                                       Set(roomId, anns), Save(roomId)>>)
                    /\ UNCHANGED <<sockets, server>>
               ELSE /\ last' = Event(ev, s, roomId, arg,
                                     <<Set(roomId, anns), Throw("writeFileSync")>>)
                    /\ server' = "crashed"
                    /\ rooms' = <<>>
                    /\ sockets' = [c \in SocketIds |->
                                      IF sockets[c].state = "new" THEN NewSocket
                                      ELSE ClosedSocket]
                    /\ UNCHANGED files
       ELSE /\ last' = Event(ev, s, roomId, arg, <<>>)
            /\ UNCHANGED <<rooms, sockets, files, server>>
    /\ UNCHANGED now
    /\ UNCHANGED local

\* an annotation handler that makes the room it names when there is none
MutateUpserts(ev, s, roomId, arg, anns, name, payload) ==
    /\ server = "up"
    /\ Open(s)
    /\ IF roomId \in DOMAIN rooms
       THEN \E written \in BOOLEAN :
               IF written
               THEN /\ rooms' = [rooms EXCEPT ![roomId].annotations = anns]
                    /\ files' = saveRoomState(files, rooms', roomId)
                    /\ last' = Event(ev, s, roomId, arg,
                                     <<Set(roomId, anns), Save(roomId),
                                       Emit(Broadcast(sockets, s, roomId), name, payload)>>)
                    /\ UNCHANGED <<sockets, server>>
               ELSE /\ last' = Event(ev, s, roomId, arg,
                                     <<Set(roomId, anns), Throw("writeFileSync")>>)
                    /\ server' = "crashed"
                    /\ rooms' = <<>>
                    /\ sockets' = [c \in SocketIds |->
                                      IF sockets[c].state = "new" THEN NewSocket
                                      ELSE ClosedSocket]
                    /\ UNCHANGED files
       ELSE /\ last' = Event(ev, s, roomId, arg, <<>>)
            /\ rooms' = [c \in DOMAIN rooms \cup {roomId} |->
                            IF c = roomId THEN NewRoom(Null, now) ELSE rooms[c]]
            /\ UNCHANGED <<sockets, files, server>>
    /\ UNCHANGED now
    /\ UNCHANGED local

\* the common shape of the annotation handlers: when the room exists, replace
\* its annotation sequence by anns, saveRoomState, then io.to(roomId).emit.
\* fs.writeFileSync either succeeds or throws; nothing catches the throw, so
\* the process ends with the exception and its memory and connections are gone
Mutate(ev, s, roomId, arg, anns, name, payload) ==
    /\ server = "up"
    /\ Open(s)
    /\ IF roomId \in DOMAIN rooms
       THEN \E written \in BOOLEAN :
               IF written
               THEN /\ rooms' = [rooms EXCEPT ![roomId].annotations = anns]
                    /\ files' = saveRoomState(files, rooms', roomId)
                    /\ last' = Event(ev, s, roomId, arg,
                                     <<Set(roomId, anns), Save(roomId),
                                       Emit(Broadcast(sockets, s, roomId), name, payload)>>)
                    /\ UNCHANGED <<sockets, server>>
               ELSE /\ last' = Event(ev, s, roomId, arg,
                                     <<Set(roomId, anns), Throw("writeFileSync")>>)
                    /\ server' = "crashed"
                    /\ rooms' = <<>>
                    /\ sockets' = [c \in SocketIds |->
                                      IF sockets[c].state = "new" THEN NewSocket
                                      ELSE ClosedSocket]
                    /\ UNCHANGED files
       ELSE /\ last' = Event(ev, s, roomId, arg, <<>>)
            /\ UNCHANGED <<rooms, sockets, files, server>>
    /\ UNCHANGED now
    /\ UNCHANGED local

\* unshift instead of push: the new annotation goes to the front
PushFront(rs, roomId, annotation) ==
    IF roomId \in DOMAIN rs THEN <<annotation>> \o rs[roomId].annotations ELSE <<>>

\* a push that also stamps the new id on the annotations already there
PushRelabel(rs, roomId, annotation) ==
    IF roomId \in DOMAIN rs
    THEN Append([i \in 1..Len(rs[roomId].annotations) |->
                    [rs[roomId].annotations[i] EXCEPT !.id = annotation.id]],
                annotation)
    ELSE <<>>

\* room.annotations.push(annotation)
Push(rs, roomId, annotation) ==
    IF roomId \in DOMAIN rs THEN Append(rs[roomId].annotations, annotation) ELSE <<>>

\* socket.on('add-danger-zone')
AddDangerZone(s, roomId, data) ==
    Mutate("add-danger-zone", s, roomId, data,
           Push(rooms, roomId, DangerZone(data, now)),
           "annotation-added", DangerZone(data, now))

\* socket.on('add-arrow')
AddArrow(s, roomId, data) ==
    Mutate("add-arrow", s, roomId, data,
           Push(rooms, roomId, Arrow(data, now)),
           "annotation-added", Arrow(data, now))

\* socket.on('add-incident')
AddIncident(s, roomId, data) ==
    Mutate("add-incident", s, roomId, data,
           Push(rooms, roomId, Incident(data, now)),
           "annotation-added", Incident(data, now))

\* socket.on('add-restricted-zone')
AddRestrictedZone(s, roomId, data) ==
    Mutate("add-restricted-zone", s, roomId, data,
           Push(rooms, roomId, RestrictedZone(data, now)),
           "annotation-added", RestrictedZone(data, now))

\* clear-annotations taking away the oldest annotation only
ClearOldest(s, roomId) ==
    Mutate("clear-annotations", s, roomId, Undefined,
           IF roomId \in DOMAIN rooms /\ rooms[roomId].annotations # <<>>
           THEN Tail(rooms[roomId].annotations) ELSE <<>>,
           "annotations-cleared", Undefined)

\* socket.on('clear-annotations')
ClearAnnotations(s, roomId) ==
    Mutate("clear-annotations", s, roomId, Undefined,
           <<>>,
           "annotations-cleared", Undefined)

\* a filter that drops the oldest annotation when no id matches
FilterOutOrOldest(rs, roomId, annotationId) ==
    IF roomId \in DOMAIN rs
    THEN IF \E i \in 1..Len(rs[roomId].annotations) :
               rs[roomId].annotations[i].id = annotationId
         THEN SelectSeq(rs[roomId].annotations, LAMBDA a : a.id # annotationId)
         ELSE IF rs[roomId].annotations = <<>> THEN <<>>
         ELSE Tail(rs[roomId].annotations)
    ELSE <<>>

\* room.annotations.filter(a => a.id !== annotationId)
FilterOut(rs, roomId, annotationId) ==
    IF roomId \in DOMAIN rs
    THEN SelectSeq(rs[roomId].annotations, LAMBDA a : a.id # annotationId)
    ELSE <<>>

\* socket.on('remove-annotation')
RemoveAnnotation(s, roomId, annotationId) ==
    Mutate("remove-annotation", s, roomId, annotationId,
           FilterOut(rooms, roomId, annotationId),
           "annotation-removed", [id |-> annotationId])

(***************************************************************************)
(* Relay handlers: nothing is stored, the payload goes to one slot.        *)
(***************************************************************************)
\* the payloads the clients send with the relay events (without roomId)
MovementData == {[rotation |-> "r1", speed |-> "0"]}
TouchData    == {[movement |-> "m1", isRunning |-> "true", extra |-> "x"]}
PositionData == {[position |-> "p1"], [position |-> Undefined]}
PlacementData == {[type |-> "'danger'", callback |-> Undefined]}

\* a relay that reaches everybody in the channel group of the room
RelayToRoom(ev, s, roomId, arg, slot, name, payload) ==
    /\ server = "up"
    /\ Open(s)
    /\ last' = Event(ev, s, roomId, arg,
                     IF roomId \in DOMAIN rooms /\ ~Falsy(rooms[roomId][slot])
                     THEN <<Emit(Recipients(sockets, roomId), name, payload)>>
                     ELSE <<>>)
    /\ UNCHANGED <<rooms, sockets, files, now, server>>
    /\ UNCHANGED local

\* a relay that also saves the room
RelaySaves(ev, s, roomId, arg, slot, name, payload) ==
    /\ server = "up"
    /\ Open(s)
    /\ last' = Event(ev, s, roomId, arg,
                     IF roomId \in DOMAIN rooms /\ ~Falsy(rooms[roomId][slot])
                     THEN <<Emit(Recipients(sockets, rooms[roomId][slot]), name, payload)>>
                     ELSE <<>>)
    /\ files' = saveRoomState(files, rooms, roomId)
    /\ UNCHANGED <<rooms, sockets, now, server>>
    /\ UNCHANGED local

\* const room = rooms.get(data.roomId);
\* if (room && room[slot]) io.to(room[slot]).emit(name, payload)
Relay(ev, s, roomId, arg, slot, name, payload) ==
    /\ server = "up"
    /\ Open(s)
    /\ last' = Event(ev, s, roomId, arg,
                     IF roomId \in DOMAIN rooms /\ ~Falsy(rooms[roomId][slot])
                     THEN <<Emit(Recipients(sockets, rooms[roomId][slot]), name, payload)>>
                     ELSE <<>>)
    /\ UNCHANGED <<rooms, sockets, files, now, server>>
    /\ UNCHANGED local

\* socket.on('tablet-movement')
TabletMovement(s, roomId, data) ==
    Relay("tablet-movement", s, roomId, data, "displaySocket", "movement-update",
          [rotation |-> data.rotation, speed |-> data.speed])

\* socket.on('touch-movement')
TouchMovement(s, roomId, data) ==
    Relay("touch-movement", s, roomId, data, "displaySocket", "touch-movement-update",
          [movement |-> data.movement, isRunning |-> data.isRunning])

\* socket.on('toggle-flashlight')
ToggleFlashlight(s, roomId) ==
    Relay("toggle-flashlight", s, roomId, Undefined, "displaySocket", "flashlight-toggle",
          Undefined)

\* camera-position sent to the display slot
CameraPositionToDisplay(s, roomId, data) ==
    Relay("camera-position", s, roomId, data, "displaySocket", "camera-position-update",
          data.position)

\* socket.on('camera-position')
CameraPosition(s, roomId, data) ==
    Relay("camera-position", s, roomId, data, "controllerSocket", "camera-position-update",
          data.position)

\* socket.on('request-placement')
RequestPlacement(s, roomId, data) ==
    Relay("request-placement", s, roomId, data, "displaySocket", "get-placement-position",
          [type |-> data.type, callback |-> data.callback])

\* socket.on('placement-position')
PlacementPosition(s, roomId, data) ==
    Relay("placement-position", s, roomId, data, "controllerSocket",
          "placement-position-response", data.position)

(***************************************************************************)
(* The display page: its array `annotations` and the listeners that keep   *)
(* it.  socket.io hands a connection its messages in the order they were   *)
(* emitted, so a page has applied the message of one event before the      *)
(* message of the next arrives.                                            *)
(***************************************************************************)
\* function addAnnotation(annotation): annotations.push(annotation)
addAnnotation(annotations, annotation) == Append(annotations, annotation)

\* annotations.findIndex(a => a.id === id), counted from 1; -1 when there is none
findIndex(annotations, id) ==
    LET hits == {i \in 1..Len(annotations) : annotations[i].id = id}
    IN IF hits = {} THEN -1 ELSE CHOOSE i \in hits : \A j \in hits : i <= j

\* function removeAnnotation(id): annotations.splice(index, 1) at the first match
removeAnnotation(annotations, id) ==
    LET index == findIndex(annotations, id)
    IN IF index # -1
       THEN [i \in 1..(Len(annotations) - 1) |->
                IF i < index THEN annotations[i] ELSE annotations[i + 1]]
       ELSE annotations

\* function clearAllAnnotations(): annotations = []
clearAllAnnotations(annotations) == <<>>

\* socket.on('annotation-added' / 'annotation-removed' / 'annotations-cleared')
Listen(annotations, name, arg) ==
    IF name = "annotation-added" THEN addAnnotation(annotations, arg)
    ELSE IF name = "annotation-removed" THEN removeAnnotation(annotations, arg.id)
    ELSE IF name = "annotations-cleared" THEN clearAllAnnotations(annotations)
    ELSE annotations

\* the positions in the effects of the last event of a message the pages listen to
Undelivered ==
    {i \in 1..Len(last.log) :
        /\ last.log[i].op = "emit"
        /\ last.log[i].name \in {"annotation-added", "annotation-removed",
                                 "annotations-cleared"}}

Pending == Undelivered # {}

\* the message of the last event arrives at its recipients and their listeners run
Deliver ==
    /\ Pending
    /\ LET m == last.log[CHOOSE i \in Undelivered : TRUE]
       IN /\ local' = [s \in SocketIds |->
                          IF s \in m.to THEN Listen(local[s], m.name, m.arg) ELSE local[s]]
          /\ last' = Event(m.name, "none", last.roomId, m.arg, <<>>)
    /\ UNCHANGED <<rooms, sockets, files, now, server>>

(***************************************************************************)
(* The controller page: joinRoom() reads the text of the room code field,  *)
(* trims it, and sends join-room only for four digits.  A text is a        *)
(* sequence of characters here, so that its length and its characters can  *)
(* be read.                                                                *)
(***************************************************************************)
DigitChars == <<"0", "1", "2", "3", "4", "5", "6", "7", "8", "9">>

\* the characters of a non-negative integer's toString()
RECURSIVE toString(_)
toString(n) ==
    IF n < 10 THEN <<DigitChars[n + 1]>>
    ELSE toString(n \div 10) \o <<DigitChars[(n % 10) + 1]>>

\* the string made of the characters of a text
RECURSIVE Str(_)
Str(text) == IF text = <<>> THEN "" ELSE Head(text) \o Str(Tail(text))

\* String.prototype.trim(): white space is taken off both ends
RECURSIVE trim(_)
trim(text) ==
    IF text = <<>> THEN text
    ELSE IF Head(text) = " " THEN trim(Tail(text))
    ELSE IF text[Len(text)] = " " THEN trim(SubSeq(text, 1, Len(text) - 1))
    ELSE text

\* a validation that tests the length only
ValidLength(roomCode) == ~(Len(roomCode) # 4)

\* /^\d+$/.test(roomCode)
AllDigits(roomCode) ==
    /\ Len(roomCode) >= 1
    /\ \A i \in 1..Len(roomCode) : \E d \in 1..10 : roomCode[i] = DigitChars[d]

\* the test of joinRoom(), negated: roomCode.length !== 4 || !/^\d+$/.test(roomCode)
Valid(roomCode) == ~(Len(roomCode) # 4 \/ ~AllDigits(roomCode))

\* the texts typed into the room code field: the codes the server can issue,
\* bare and with blanks around them, and texts that are no code
JoinInputs ==
    {toString(CodeBase + r) : r \in 0..(NumCodes - 1)}
    \cup {<<" ">> \o toString(CodeBase + r) \o <<" ", " ">> : r \in 0..(NumCodes - 1)}
    \cup {<<>>, <<" ", " ", " ", " ">>, <<"1", "2", "3">>, <<"1", "2", "a", "4">>,
          <<"1", "0", "0", "0", "0">>, <<"1", "0", " ", "0">>, <<"0", "0", "0", "0">>}

\* joinRoom() of the controller page behind connection s
ClientJoin(s, input) ==
    LET roomCode == trim(input)
    IN IF Valid(roomCode)
       THEN JoinRoom(s, Str(roomCode))
       ELSE /\ server = "up"
            /\ Open(s)
            /\ last' = Event("showError", s, Undefined, input, <<>>)
            /\ UNCHANGED <<rooms, sockets, files, now, server, local>>

(***************************************************************************)
(* The events the clients send.  A run is bounded by its load: the         *)
(* connections made plus the rooms created.                                *)
(***************************************************************************)
UsedSockets == {s \in SocketIds : sockets[s].state # "new"}

Load == Cardinality(UsedSockets) + Cardinality(DOMAIN rooms)

\* the room codes a client may name in an event
NamedCodes == CodeSpace

\* the deviceType values a reconnect-room may carry
DeviceTypes == {"display", "controller"}

\* the annotation ids a client may name in remove-annotation: those issued so
\* far, and one that never is
AnnotationIds ==
    UNION {{rooms[c].annotations[i].id : i \in 1..Len(rooms[c].annotations)} :
              c \in DOMAIN rooms}
    \cup {"arrow_x"}

CanAdd(roomId) ==
    roomId \in DOMAIN rooms => Len(rooms[roomId].annotations) < MaxAnn

\* connection, room creation, join and disconnection
Sessions(maxLoad, maxRooms) ==
    \/ \E s \in SocketIds : Load < maxLoad /\ Connect(s)
    \/ \E s \in SocketIds :
          Load < maxLoad /\ Cardinality(DOMAIN rooms) < maxRooms /\ CreateRoom(s)
    \/ \E s \in SocketIds, roomCode \in NamedCodes : JoinRoom(s, roomCode)
    \/ \E s \in SocketIds : Disconnect(s)

\* reconnection
Reconnects ==
    \E s \in SocketIds, roomId \in NamedCodes, deviceType \in DeviceTypes :
       ReconnectRoom(s, roomId, deviceType)

\* the add-* events, with payloads from the given sets
AddsFrom(danger, arrow, incident, restricted) ==
    \/ \E s \in SocketIds, roomId \in NamedCodes, data \in danger :
          CanAdd(roomId) /\ AddDangerZone(s, roomId, data)
    \/ \E s \in SocketIds, roomId \in NamedCodes, data \in arrow :
          CanAdd(roomId) /\ AddArrow(s, roomId, data)
    \/ \E s \in SocketIds, roomId \in NamedCodes, data \in incident :
          CanAdd(roomId) /\ AddIncident(s, roomId, data)
    \/ \E s \in SocketIds, roomId \in NamedCodes, data \in restricted :
          CanAdd(roomId) /\ AddRestrictedZone(s, roomId, data)

\* the annotation events
Annotate ==
    \/ AddsFrom(DangerData, ArrowData, IncidentData, RestrictedData)
    \/ \E s \in SocketIds, roomId \in NamedCodes : ClearAnnotations(s, roomId)
    \/ \E s \in SocketIds, roomId \in NamedCodes, annotationId \in AnnotationIds :
          RemoveAnnotation(s, roomId, annotationId)

Next ==
    \/ Sessions(MaxLoad, NumCodes)
    \/ Reconnects
    \/ \E s \in SocketIds : CreateRoomHang(s)

NextAnn == Sessions(AnnLoad, AnnRooms) \/ Annotate

\* the relay events
Relays ==
    \/ \E s \in SocketIds, roomId \in NamedCodes, data \in MovementData :
          TabletMovement(s, roomId, data)
    \/ \E s \in SocketIds, roomId \in NamedCodes, data \in TouchData :
          TouchMovement(s, roomId, data)
    \/ \E s \in SocketIds, roomId \in NamedCodes : ToggleFlashlight(s, roomId)
    \/ \E s \in SocketIds, roomId \in NamedCodes, data \in PositionData :
          CameraPosition(s, roomId, data)
    \/ \E s \in SocketIds, roomId \in NamedCodes, data \in PlacementData :
          RequestPlacement(s, roomId, data)
    \/ \E s \in SocketIds, roomId \in NamedCodes, data \in PositionData :
          PlacementPosition(s, roomId, data)

NextRejoin == Sessions(AnnLoad, AnnRooms) \/ Annotate \/ Reconnects

NextClock == Sessions(ClockLoad, AnnRooms) \/ Annotate \/ Tick

NextInputs ==
    \/ Sessions(ClockLoad, AnnRooms)
    \/ AddsFrom(DangerInputs, ArrowInputs, IncidentInputs, RestrictedInputs)

NextRelay == Sessions(MaxLoad, AnnRooms) \/ Reconnects \/ Relays

\* create-room with the draws of generateRoomCode as steps; the load budget
\* keeps room for a room on every code of the space
NextAlloc ==
    \/ \E s \in SocketIds : Cardinality(UsedSockets) + NumCodes < MaxLoad /\ Connect(s)
    \/ \E s \in SocketIds : CreateRoomBegin(s)
    \/ \E code \in CodeSpace : DrawTaken(code)
    \/ \E code \in CodeSpace : DrawFree(code)
    \/ \E s \in SocketIds, roomCode \in NamedCodes : JoinRoom(s, roomCode)
    \/ \E s \in SocketIds : Disconnect(s)

NextScenario ==
    \/ Sessions(AnnLoad, AnnRooms)
    \/ AddsFrom(DangerInputs, ArrowData, IncidentData, RestrictedData)

NextAll == Sessions(ClockLoad, AnnRooms) \/ Annotate \/ Reconnects \/ Relays

\* danger zones, removals and clears on two rooms
NextRooms ==
    \/ Sessions(MaxLoad, NumCodes)
    \/ \E s \in SocketIds, roomId \in NamedCodes, data \in DangerData :
          CanAdd(roomId) /\ AddDangerZone(s, roomId, data)
    \/ \E s \in SocketIds, roomId \in NamedCodes : ClearAnnotations(s, roomId)
    \/ \E s \in SocketIds, roomId \in NamedCodes, annotationId \in AnnotationIds :
          RemoveAnnotation(s, roomId, annotationId)

\* the pages have room for one more annotation
CanShow == \A s \in SocketIds : Len(local[s]) < MaxAnn

\* a display, its room and its page: every message is applied by the page
\* before the server handles the next event
NextPages ==
    \/ \E s \in SocketIds : Load < ClockLoad /\ ~Pending /\ Connect(s)
    \/ \E s \in SocketIds :
          /\ Load < ClockLoad
          /\ Cardinality(DOMAIN rooms) < AnnRooms
          /\ ~Pending
          /\ CreateRoom(s)
    \/ \E s \in SocketIds, roomId \in NamedCodes, data \in DangerData :
          ~Pending /\ CanAdd(roomId) /\ CanShow /\ AddDangerZone(s, roomId, data)
    \/ \E s \in SocketIds, roomId \in NamedCodes, data \in ArrowData :
          ~Pending /\ CanAdd(roomId) /\ CanShow /\ AddArrow(s, roomId, data)
    \/ \E s \in SocketIds, roomId \in NamedCodes : ~Pending /\ ClearAnnotations(s, roomId)
    \/ \E s \in SocketIds, roomId \in NamedCodes, annotationId \in AnnotationIds :
          ~Pending /\ RemoveAnnotation(s, roomId, annotationId)
    \/ Deliver

\* displays that create rooms and controller pages that join through joinRoom()
NextJoin ==
    \/ \E s \in SocketIds : Load < MaxLoad /\ Connect(s)
    \/ \E s \in SocketIds :
          Load < MaxLoad /\ Cardinality(DOMAIN rooms) < NumCodes /\ CreateRoom(s)
    \/ \E s \in SocketIds, input \in JoinInputs : ClientJoin(s, input)
    \/ \E s \in SocketIds : Disconnect(s)

\* the connection and room lifecycle
Spec == Init /\ [][Next]_vars

\* two connections and one room, with the annotation events
SpecAnn == Init /\ [][NextAnn]_vars

\* two connections and one room, with the annotation events and reconnection
SpecRejoin == Init /\ [][NextRejoin]_vars

\* one connection and one room, with the annotation events and a running clock
SpecClock == Init /\ [][NextClock]_vars

\* one connection and one room, with add-* events of every shape of payload
SpecInputs == Init /\ [][NextInputs]_vars

\* three connections and one room, with the relay events
SpecRelay == Init /\ [][NextRelay]_vars

\* the lifecycle with the allocator's loop, under fair random draws: a draw
\* that is possible again and again is eventually made
FairAlloc == Init /\ [][NextAlloc]_vars /\ WF_vars(\E code \in CodeSpace : DrawFree(code))

\* two connections and one room, with add-* events and every shape of danger zone
SpecScenario == Init /\ [][NextScenario]_vars

\* one connection and one room, with every event but the clock's
SpecAll == Init /\ [][NextAll]_vars

\* two rooms, with danger zones added, removed and cleared
SpecRooms == Init /\ [][NextRooms]_vars

\* one display with its room and its page
SpecPages == Init /\ [][NextPages]_vars

\* the lifecycle with join-room sent by the controller page only
SpecJoin == Init /\ [][NextJoin]_vars

(***************************************************************************)
(* Properties.                                                             *)
(***************************************************************************)
Roles == {"display", "controller"}

SlotOf(room, role) ==
    IF role = "display" THEN room.displaySocket ELSE room.controllerSocket

\* the acknowledgments and the emitted messages of an event, in order
AcksOf(e)  == SelectSeq(e.log, LAMBDA x : x.op = "ack")
EmitsOf(e) == SelectSeq(e.log, LAMBDA x : x.op = "emit")

\* the event acknowledged exactly once, with this payload
AckedWith(e, payload) ==
    AcksOf(e) = <<Ack(e.sock, payload)>>

Succeeded(e) == Len(AcksOf(e)) = 1 /\ AcksOf(e)[1].arg.success

NotFound         == [success |-> FALSE, error |-> "Room not found"]
AlreadyConnected == [success |-> FALSE, error |-> "Device type already connected"]

\* the connections whose own binding names this room and role
BoundAs(roomId, role) ==
    {s \in SocketIds : /\ Open(s)
                       /\ sockets[s].roomId = roomId
                       /\ sockets[s].deviceType = role}

\* C1: create-room never returns a code that is already a key of the room
\* table: the step of a create-room that answers adds exactly one new key and
\* leaves every existing room in place, so no two rooms share a code.
C1_CreateNeverOverwrites ==
    [][(last'.ev = "create-room" /\ server' = "up") =>
          /\ last'.roomId \notin DOMAIN rooms
          /\ AckedWith(last', [success |-> TRUE, roomCode |-> last'.roomId])
          /\ DOMAIN rooms' = DOMAIN rooms \cup {last'.roomId}
          /\ Cardinality(DOMAIN rooms') = Cardinality(DOMAIN rooms) + 1
          /\ \A c \in DOMAIN rooms : rooms'[c] = rooms[c]]_vars

C1_Witness ==
    /\ last.ev = "create-room"
    /\ server = "up"
    /\ Cardinality(DOMAIN rooms) >= 2

\* C2: for every room, at most one live connection is bound as its display
\* and at most one as its controller, by the connections' own bindings.
C2_OneBindingPerRole ==
    \A c \in DOMAIN rooms, role \in Roles : Cardinality(BoundAs(c, role)) <= 1

\* C3: a reconnect-room for a role of an existing room succeeds if and only if
\* the slot of that role is empty when the event is handled; on an occupied
\* slot the ack is 'Device type already connected' and the occupant stays.
C3_ReconnectOnlyIntoEmptySlot ==
    [][(/\ last'.ev = "reconnect-room"
        /\ last'.roomId \in DOMAIN rooms
        /\ last'.arg \in Roles) =>
          LET c     == last'.roomId
              before == SlotOf(rooms[c], last'.arg)
              after  == SlotOf(rooms'[c], last'.arg)
          IN /\ Succeeded(last') <=> before = Null
             /\ before = Null => after = last'.sock
             /\ before # Null => /\ AckedWith(last', AlreadyConnected)
                                 /\ after = before
                                 /\ rooms' = rooms]_vars

C3_Witness ==
    /\ last.ev = "reconnect-room"
    /\ last.arg \in Roles
    /\ AckedWith(last, AlreadyConnected)
    /\ last.roomId \in DOMAIN rooms
    /\ SlotOf(rooms[last.roomId], last.arg) \notin {Null, last.sock}

\* C4: a disconnect never empties a slot that holds a different connection
\* which is still connected.
C4_DisconnectClearsOwnSlotOnly ==
    [][last'.ev = "disconnect" =>
          \A c \in DOMAIN rooms, role \in Roles :
             LET occupant == SlotOf(rooms[c], role)
             IN (/\ occupant # Null
                 /\ occupant # last'.sock
                 /\ sockets'[occupant].state = "open")
                => SlotOf(rooms'[c], role) = occupant]_vars

\* C5: a reconnect-room for a role of an existing room, sent by a connection
\* that was never bound, at a moment when every connection that was ever bound
\* to any room has disconnected, succeeds.
C5_DisconnectionRecoverable ==
    [][(/\ last'.ev = "reconnect-room"
        /\ last'.roomId \in DOMAIN rooms
        /\ last'.arg \in Roles
        /\ \A s \in SocketIds : Open(s) => sockets[s].roomId = Undefined)
       => Succeeded(last')]_vars

C7_JoinUnknownRoom ==
    [][(last'.ev = "join-room" /\ last'.roomId \notin DOMAIN rooms) =>
          /\ last'.log = <<Ack(last'.sock, NotFound)>>
          /\ rooms' = rooms
          /\ sockets' = sockets
          /\ files' = files
          /\ server' = "up"]_vars

C7_Witness ==
    /\ last.ev = "join-room"
    /\ last.roomId \notin DOMAIN rooms
    /\ DOMAIN rooms # {}
    /\ sockets[last.sock].roomId # Undefined

\* C8: a join-room on an existing room succeeds and puts the joining
\* connection into the controller slot whatever the slot held, so after two
\* joins the slot holds the connection whose join was handled last.
C8_JoinOverwritesController ==
    [][(last'.ev = "join-room" /\ last'.roomId \in DOMAIN rooms) =>
          /\ Succeeded(last')
          /\ rooms'[last'.roomId].controllerSocket = last'.sock
          /\ sockets'[last'.sock].roomId = last'.roomId
          /\ sockets'[last'.sock].deviceType = "controller"]_vars

\* the second of two joiners holds the slot, the first is still connected
C8_Witness ==
    /\ last.ev = "join-room"
    /\ Succeeded(last)
    /\ rooms[last.roomId].controllerSocket = last.sock
    /\ BoundAs(last.roomId, "controller") \ {last.sock} # {}

MutationEvents ==
    {"add-danger-zone", "add-arrow", "add-incident", "add-restricted-zone",
     "clear-annotations", "remove-annotation"}

\* the room-wide message of each annotation event
MessageOf(ev) ==
    IF ev = "clear-annotations" THEN "annotations-cleared"
    ELSE IF ev = "remove-annotation" THEN "annotation-removed"
    ELSE "annotation-added"

\* the connections in the channel group of a room, and the live occupants of
\* its slots
Members(socks, roomId) ==
    {s \in SocketIds : socks[s].state = "open" /\ roomId \in socks[s].joined}

Occupants(socks, room) ==
    {s \in SocketIds : socks[s].state = "open"
                       /\ s \in {room.displaySocket, room.controllerSocket}}

\* C9: every add-*, clear-annotations or remove-annotation event naming an
\* existing room (whose write to storage succeeds) emits exactly one message,
\* annotation-added / annotations-cleared / annotation-removed, to every
\* member of the room's channel group, which holds every live occupant of the
\* room's slots and the sender when it is a member.
C9_BroadcastToAllMembers ==
    [][(/\ last'.ev \in MutationEvents
        /\ last'.roomId \in DOMAIN rooms
        /\ server' = "up") =>
          LET msgs == EmitsOf(last')
          IN /\ Len(msgs) = 1
             /\ msgs[1].name = MessageOf(last'.ev)
             /\ msgs[1].to = Members(sockets, last'.roomId)
             /\ Occupants(sockets, rooms[last'.roomId]) \subseteq msgs[1].to
             /\ last'.sock \in Members(sockets, last'.roomId) => last'.sock \in msgs[1].to
      ]_vars

\* the controller adds an annotation and receives annotation-added itself,
\* together with the display
C9_Witness ==
    /\ last.ev = "add-arrow"
    /\ last.roomId \in DOMAIN rooms
    /\ server = "up"
    /\ rooms[last.roomId].controllerSocket = last.sock
    /\ EmitsOf(last)[1].to = {last.sock, rooms[last.roomId].displaySocket}
    /\ Cardinality(EmitsOf(last)[1].to) = 2

\* reading property k of an object: undefined when the object has no such key
Get(o, k) == IF k \in DOMAIN o THEN o[k] ELSE Undefined

\* two sequences of objects whose properties all read the same
SameObjects(x, y) ==
    /\ Len(x) = Len(y)
    /\ \A i \in 1..Len(x) :
          \A k \in DOMAIN x[i] \cup DOMAIN y[i] : Get(x[i], k) = Get(y[i], k)

\* the position of the first entry of a log with this op, 0 if there is none
FirstOp(log, op) ==
    IF \E i \in 1..Len(log) : log[i].op = op
    THEN CHOOSE i \in 1..Len(log) :
            log[i].op = op /\ \A j \in 1..(i - 1) : log[j].op # op
    ELSE 0

\* C10: while the process runs (the writes to storage having succeeded), the
\* annotations of every room file read back as the room's annotation sequence
\* in memory; every annotation event on an existing room has written the
\* room's file, and wrote it before it emitted its broadcast.
C10_WriteThrough ==
    server = "up" =>
       /\ \A c \in DOMAIN files :
             c \in DOMAIN rooms
             /\ SameObjects(files[c].annotations, rooms[c].annotations)
       /\ (last.ev \in MutationEvents /\ last.roomId \in DOMAIN rooms) =>
             /\ last.roomId \in DOMAIN files
             /\ FirstOp(last.log, "set") = 1
             /\ FirstOp(last.log, "save") = 2
             /\ FirstOp(last.log, "emit") = 3

\* two annotations written through, one of them with a property that the
\* file leaves out
C10_Witness ==
    /\ server = "up"
    /\ last.ev \in MutationEvents
    /\ last.roomId \in DOMAIN files
    /\ Len(rooms[last.roomId].annotations) = 2
    /\ files[last.roomId].annotations # rooms[last.roomId].annotations
    /\ SameObjects(files[last.roomId].annotations, rooms[last.roomId].annotations)

\* the persisted record of a room reads back as the room in memory
RecordMatches(file, room) ==
    /\ file.displaySocket = room.displaySocket
    /\ file.controllerSocket = room.controllerSocket
    /\ file.createdAt = room.createdAt
    /\ SameObjects(file.annotations, room.annotations)

\* C11: while the process runs, every room of the room table has a persisted
\* record, and the record's display slot, controller slot, annotations and
\* createdAt equal the room's state in memory (every mutating operation having
\* re-serialized the room).
C11_RecordEqualsMemory ==
    server = "up" =>
       \A c \in DOMAIN rooms :
          c \in DOMAIN files /\ RecordMatches(files[c], rooms[c])

\* the write of an event failed
WriteFailed(e) == \E i \in 1..Len(e.log) : e.log[i] = Throw("writeFileSync")

\* C12: when the write to storage fails during an annotation event on an
\* existing room, the process keeps running, the room's annotation sequence in
\* memory is the mutated one, and the event's broadcast is still emitted.
C12_WriteFailureNonFatal ==
    [][(/\ last'.ev \in MutationEvents
        /\ last'.roomId \in DOMAIN rooms
        /\ WriteFailed(last')) =>
          /\ server' = "up"
          /\ last'.roomId \in DOMAIN rooms'
          /\ rooms'[last'.roomId].annotations = last'.log[1].arg
          /\ Len(EmitsOf(last')) = 1
          /\ EmitsOf(last')[1].name = MessageOf(last'.ev)]_vars

AddEvents == {"add-danger-zone", "add-arrow", "add-incident", "add-restricted-zone"}

\* C13: a clear-annotations on an existing room leaves the room's annotation
\* sequence empty; a successful join-room or reconnect-room on a room whose
\* sequence is empty acks an empty annotations list; and an empty sequence
\* becomes non-empty by an add-* event on that room only.
C13_ClearedRoomAcksEmpty ==
    [][\A c \in DOMAIN rooms :
          /\ (last'.ev = "clear-annotations" /\ last'.roomId = c /\ server' = "up")
                => rooms'[c].annotations = <<>>
          /\ (/\ last'.ev \in {"join-room", "reconnect-room"}
              /\ last'.roomId = c
              /\ Succeeded(last')
              /\ rooms[c].annotations = <<>>)
                => AcksOf(last')[1].arg.annotations = <<>>
          /\ (server' = "up" /\ rooms[c].annotations = <<>> /\ rooms'[c].annotations # <<>>)
                => (last'.ev \in AddEvents /\ last'.roomId = c)
      ]_vars

\* a reconnect-room into a room whose annotations were written and then all
\* taken away again is acked with an empty list
C13_Witness ==
    /\ last.ev = "reconnect-room"
    /\ Succeeded(last)
    /\ AcksOf(last)[1].arg.annotations = <<>>
    /\ last.roomId \in DOMAIN files
    /\ files[last.roomId].annotations = <<>>

\* the annotation an add-* event has just stored
Stored(rs, roomId) == rs[roomId].annotations[Len(rs[roomId].annotations)]

\* C14: an add-* event on an existing room stores the default of every
\* defaultable field that its payload does not carry: radius 5 and label
\* 'Danger Zone' for a danger zone, label 'Direction' for an arrow, the current
\* ISO date, 'Incident reported' and 'medium' for an incident, active = true
\* for a restricted zone.
C14_DefaultsFilled ==
    [][(last'.ev \in AddEvents /\ last'.roomId \in DOMAIN rooms /\ server' = "up") =>
          LET a  == Stored(rooms', last'.roomId)
              d  == last'.arg
              ev == last'.ev
          IN /\ Len(rooms'[last'.roomId].annotations)
                   = Len(rooms[last'.roomId].annotations) + 1
             /\ (ev = "add-danger-zone" /\ d.radius = Undefined) => a.radius = "5"
             /\ (ev = "add-danger-zone" /\ d.label = Undefined) => a.label = "'Danger Zone'"
             /\ (ev = "add-arrow" /\ d.label = Undefined) => a.label = "'Direction'"
             /\ (ev = "add-incident" /\ d.date = Undefined) => a.date = ISODate(now)
             /\ (ev = "add-incident" /\ d.description = Undefined)
                   => a.description = "'Incident reported'"
             /\ (ev = "add-incident" /\ d.severity = Undefined) => a.severity = "'medium'"
             /\ (ev = "add-restricted-zone" /\ d.active = Undefined) => a.active = "true"
      ]_vars

\* a danger zone, an incident, an arrow or a restricted zone stored from a
\* payload with none of its defaultable fields
C14_Witness ==
    /\ last.ev \in AddEvents
    /\ server = "up"
    /\ last.roomId \in DOMAIN rooms
    /\ Len(rooms[last.roomId].annotations) = 2
    /\ Stored(rooms, last.roomId).type = "incident"
    /\ last.arg.date = Undefined /\ last.arg.description = Undefined
    /\ last.arg.severity = Undefined
    /\ rooms[last.roomId].annotations[1].type = "danger"
    /\ rooms[last.roomId].annotations[1].radius = "5"

\* the annotations of a room, as a set of positions
Positions(c) == 1..Len(rooms[c].annotations)

\* C15: two annotations of the same room that were created at distinct
\* milliseconds, or that are of different types, have distinct ids.
C15_IdsDistinct ==
    \A c \in DOMAIN rooms : \A i, j \in Positions(c) :
       LET a == rooms[c].annotations[i]
           b == rooms[c].annotations[j]
       IN (i # j /\ (a.createdAt # b.createdAt \/ a.type # b.type)) => a.id # b.id

\* two arrows of one room, created a millisecond apart
C15_Witness ==
    \E c \in DOMAIN rooms :
       /\ Len(rooms[c].annotations) = 2
       /\ rooms[c].annotations[1].type = "arrow"
       /\ rooms[c].annotations[2].type = "arrow"
       /\ rooms[c].annotations[1].createdAt # rooms[c].annotations[2].createdAt

\* the ids of the annotations of a room
IdsIn(room) == {room.annotations[i].id : i \in 1..Len(room.annotations)}

\* C16: a remove-annotation on an existing room with an id that no annotation
\* of the room has leaves the annotation sequence as it is and emits one
\* annotation-removed carrying that id to the members of the room.
C16_RemoveUnknownId ==
    [][(/\ last'.ev = "remove-annotation"
        /\ last'.roomId \in DOMAIN rooms
        /\ server' = "up"
        /\ last'.arg \notin IdsIn(rooms[last'.roomId])) =>
          /\ rooms'[last'.roomId].annotations = rooms[last'.roomId].annotations
          /\ EmitsOf(last') = <<Emit(Members(sockets, last'.roomId),
                                     "annotation-removed", [id |-> last'.arg])>>]_vars

\* an id that was never issued, named for a room that holds annotations and
\* has a member
C16_Witness ==
    /\ last.ev = "remove-annotation"
    /\ server = "up"
    /\ last.arg = "arrow_x"
    /\ last.roomId \in DOMAIN rooms
    /\ Len(rooms[last.roomId].annotations) = 2
    /\ Len(EmitsOf(last)) = 1
    /\ EmitsOf(last)[1].to # {}

\* C17: no connection is at once the display slot and the controller slot of
\* one room.
C17_RolesExclusive ==
    \A c \in DOMAIN rooms :
       rooms[c].displaySocket # Null => rooms[c].displaySocket # rooms[c].controllerSocket

\* C18: while the process runs no event removes a room from the room table,
\* and no event other than an annotation event changes the annotation sequence
\* of a room, so a room whose two slots are empty keeps its annotations.
C18_RoomsOnlyGrow ==
    [][server' = "up" =>
          /\ DOMAIN rooms \subseteq DOMAIN rooms'
          /\ \A c \in DOMAIN rooms :
                last'.ev \notin MutationEvents =>
                   /\ rooms'[c].annotations = rooms[c].annotations
                   /\ rooms'[c].createdAt = rooms[c].createdAt]_vars

\* both peers of a room have disconnected and the room still holds its
\* annotations
C18_Witness ==
    /\ last.ev = "disconnect"
    /\ last.roomId \in DOMAIN rooms
    /\ rooms[last.roomId].displaySocket = Null
    /\ rooms[last.roomId].controllerSocket = Null
    /\ rooms[last.roomId].annotations # <<>>
    /\ Cardinality({s \in SocketIds : sockets[s].state = "closed"}) = 2

\* the log of a relay event: one message to the occupant of the slot (it
\* reaches the occupant when that connection is open, and nobody else), or
\* nothing when the room does not exist or the slot is empty
RelayedTo(e, slot, name, payload) ==
    IF e.roomId \in DOMAIN rooms /\ rooms[e.roomId][slot] # Null
    THEN /\ Len(e.log) = 1
         /\ e.log[1].op = "emit"
         /\ e.log[1].name = name
         /\ e.log[1].arg = payload
         /\ e.log[1].to \subseteq {rooms[e.roomId][slot]}
         /\ sockets[rooms[e.roomId][slot]].state = "open"
               => e.log[1].to = {rooms[e.roomId][slot]}
    ELSE e.log = <<>>

\* C19: tablet-movement, touch-movement and toggle-flashlight are forwarded as
\* movement-update, touch-movement-update and flashlight-toggle, their payload
\* fields unchanged, to the connection in the display slot of the named room
\* and to no other connection; nothing is emitted when the room does not exist
\* or its display slot is empty.
C19_MovementToDisplayOnly ==
    /\ last.ev = "tablet-movement" =>
          RelayedTo(last, "displaySocket", "movement-update",
                    [rotation |-> last.arg.rotation, speed |-> last.arg.speed])
    /\ last.ev = "touch-movement" =>
          RelayedTo(last, "displaySocket", "touch-movement-update",
                    [movement |-> last.arg.movement, isRunning |-> last.arg.isRunning])
    /\ last.ev = "toggle-flashlight" =>
          RelayedTo(last, "displaySocket", "flashlight-toggle", Undefined)

\* the controller's movement reaches the display alone, a third connection
\* being in the channel of the room
C19_Witness ==
    /\ last.ev = "tablet-movement"
    /\ last.roomId \in DOMAIN rooms
    /\ rooms[last.roomId].controllerSocket = last.sock
    /\ rooms[last.roomId].displaySocket # last.sock
    /\ last.log # <<>>
    /\ last.log[1].to = {rooms[last.roomId].displaySocket}
    /\ Cardinality(Members(sockets, last.roomId)) = 3

\* C20: camera-position is forwarded as camera-position-update to the
\* connection in the controller slot of the named room and to no other
\* connection; nothing is emitted when the room does not exist or its
\* controller slot is empty.
C20_CameraToControllerOnly ==
    last.ev = "camera-position" =>
       RelayedTo(last, "controllerSocket", "camera-position-update", last.arg.position)

\* the display's camera position reaches the controller alone, a replaced
\* controller being still in the channel of the room
C20_Witness ==
    /\ last.ev = "camera-position"
    /\ last.roomId \in DOMAIN rooms
    /\ rooms[last.roomId].displaySocket = last.sock
    /\ last.log # <<>>
    /\ last.log[1].to = {rooms[last.roomId].controllerSocket}
    /\ last.sock \notin last.log[1].to
    /\ BoundAs(last.roomId, "controller") \ last.log[1].to # {}

Handshakes == {"create-room", "join-room", "reconnect-room"}

\* C21: every create-room, join-room and reconnect-room event that is handled
\* to its end produces exactly one acknowledgment, to its sender; when the
\* event fails (unknown room, occupied slot) that ack is all it produces: no
\* message is emitted, and the room table, every binding and channel
\* membership and the files are unchanged.
C21_OneAckFailuresInert ==
    [][(last'.ev \in Handshakes /\ server' = "up") =>
          /\ Len(AcksOf(last')) = 1
          /\ AcksOf(last')[1].to = {last'.sock}
          /\ ~Succeeded(last') =>
                /\ last'.ev # "create-room"
                /\ last'.log = <<Ack(last'.sock, NotFound)>>
                      \/ last'.log = <<Ack(last'.sock, AlreadyConnected)>>
                /\ rooms' = rooms
                /\ sockets' = sockets
                /\ files' = files]_vars

\* a bound connection is refused a slot that another connection holds
C21_Witness ==
    /\ last.ev = "reconnect-room"
    /\ last.log = <<Ack(last.sock, AlreadyConnected)>>
    /\ sockets[last.sock].roomId \notin {Undefined, last.roomId}
    /\ SlotOf(rooms[last.roomId], last.arg) \in SocketIds \ {last.sock}

\* the message a disconnecting role leaves to its peer, and the peer's slot
NoticeOf(role) ==
    IF role = "display" THEN "display-disconnected" ELSE "controller-disconnected"

PeerOf(role) == IF role = "display" THEN "controller" ELSE "display"

\* C23: the disconnect of a connection bound to an existing room as display
\* (as controller) emits display-disconnected (controller-disconnected) to the
\* occupant of the room's controller (display) slot exactly when that slot is
\* occupied, and emits nothing else; the message never goes to the
\* disconnecting connection.
C23_PeerNotified ==
    [][(/\ last'.ev = "disconnect"
        /\ last'.roomId \in DOMAIN rooms
        /\ last'.arg \in Roles) =>
          LET peer == SlotOf(rooms[last'.roomId], PeerOf(last'.arg))
          IN /\ \A i \in 1..Len(last'.log) : last'.sock \notin last'.log[i].to
             /\ IF peer = Null
                THEN last'.log = <<>>
                ELSE /\ Len(last'.log) = 1
                     /\ last'.log[1].op = "emit"
                     /\ last'.log[1].name = NoticeOf(last'.arg)
                     /\ last'.log[1].to = {peer} \cap {s \in SocketIds : sockets'[s].state = "open"}
      ]_vars

\* the display leaves and the controller is told
C23_Witness ==
    /\ last.ev = "disconnect"
    /\ last.arg = "display"
    /\ last.roomId \in DOMAIN rooms
    /\ Len(last.log) = 1
    /\ last.log[1].name = "display-disconnected"
    /\ last.log[1].to = {rooms[last.roomId].controllerSocket}
    /\ rooms[last.roomId].displaySocket = Null

\* the annotation type an add-* event creates
TypeOf(ev) ==
    IF ev = "add-danger-zone" THEN "danger"
    ELSE IF ev = "add-arrow" THEN "arrow"
    ELSE IF ev = "add-incident" THEN "incident"
    ELSE "restricted"

\* C22: after create-room and a join-room by a controller, an add-* event from
\* the controller brings the display one annotation-added whose payload is the
\* annotation appended to the room, with an id prefixed by the annotation type
\* and with every field the sender supplied holding the supplied value.
C22_DisplayGetsAnnotation ==
    (/\ last.ev \in AddEvents
     /\ server = "up"
     /\ last.roomId \in DOMAIN rooms
     /\ rooms[last.roomId].controllerSocket = last.sock
     /\ rooms[last.roomId].displaySocket \in BoundAs(last.roomId, "display") \ {last.sock})
    => LET msgs == EmitsOf(last)
       IN /\ Len(msgs) = 1
          /\ msgs[1].name = "annotation-added"
          /\ rooms[last.roomId].displaySocket \in msgs[1].to
          /\ msgs[1].arg = Stored(rooms, last.roomId)
          /\ msgs[1].arg.type = TypeOf(last.ev)
          /\ msgs[1].arg.id = TypeOf(last.ev) \o "_" \o ToString(now)
          /\ \A k \in DOMAIN last.arg :
                last.arg[k] # Undefined => msgs[1].arg[k] = last.arg[k]

\* C24: code allocation ends, with a code that was not in the room table,
\* whenever a code of the space is free (under fair draws), and never ends
\* when every code of the space is a room, so that create-room never acks.
C24_AllocationTerminates ==
    /\ [][(server = "allocating" /\ server' # "allocating") =>
             /\ server' = "up"
             /\ last'.ev = "create-room"
             /\ last'.roomId \in CodeSpace \ DOMAIN rooms
             /\ AckedWith(last', [success |-> TRUE, roomCode |-> last'.roomId])]_vars
    /\ [][(server = "allocating" /\ CodeSpace \subseteq DOMAIN rooms) =>
             (server' = "allocating" /\ AcksOf(last') = <<>>)]_vars
    /\ (server = "allocating" /\ ~(CodeSpace \subseteq DOMAIN rooms)) ~> (server = "up")

\* the loop has drawn the code of a room while another code is free
C24_Witness ==
    /\ server = "allocating"
    /\ last.roomId \in DOMAIN rooms
    /\ ~(CodeSpace \subseteq DOMAIN rooms)

\* C25: the ack of a successful join-room or reconnect-room carries the
\* room's annotation sequence as it is when the event is handled, and the ack
\* of a successful display reconnect carries hasController = true exactly when
\* the room's controller slot is occupied.
C25_AckCarriesAnnotations ==
    (last.ev \in {"join-room", "reconnect-room"} /\ Succeeded(last)) =>
       LET ack  == AcksOf(last)[1].arg
           room == rooms[last.roomId]
       IN /\ ack.annotations = room.annotations
          /\ (last.ev = "reconnect-room" /\ last.arg = "display") =>
                /\ "hasController" \in DOMAIN ack
                /\ ack.hasController = (room.controllerSocket # Null)

\* a display reconnects to a room that holds an annotation and a controller
C25_Witness ==
    /\ last.ev = "reconnect-room"
    /\ last.arg = "display"
    /\ Succeeded(last)
    /\ AcksOf(last)[1].arg.hasController
    /\ Len(AcksOf(last)[1].arg.annotations) = 2
    /\ AcksOf(last)[1].arg.annotations[1].type # AcksOf(last)[1].arg.annotations[2].type

\* x can be obtained from y by deleting elements
RECURSIVE IsSubSeq(_, _)
IsSubSeq(x, y) ==
    IF x = <<>> THEN TRUE
    ELSE IF y = <<>> THEN FALSE
    ELSE IF Head(x) = Head(y) THEN IsSubSeq(Tail(x), Tail(y))
    ELSE IsSubSeq(x, Tail(y))

C27_SingleIdRemoval ==
    [][(/\ last'.ev = "remove-annotation"
        /\ last'.roomId \in DOMAIN rooms
        /\ server' = "up") =>
          LET old == rooms[last'.roomId].annotations
              new == rooms'[last'.roomId].annotations
          IN /\ last'.arg \notin IdsIn(rooms'[last'.roomId])
             /\ new = SelectSeq(old, LAMBDA a : a.id # last'.arg)
             /\ Len(new) >= Len(old) - 1]_vars

\* C28: over every event the annotation sequence of a room is unchanged, or
\* has one annotation appended (add-*), or has lost the annotations of one id
\* (remove-annotation), or is empty (clear-annotations); the annotations that
\* stay are the same objects, field by field.
C28_AnnotationsImmutable ==
    [][server' = "up" =>
          \A c \in DOMAIN rooms :
             LET old == rooms[c].annotations
                 new == rooms'[c].annotations
             IN \/ new = old
                \/ /\ last'.ev \in AddEvents /\ last'.roomId = c
                   /\ Len(new) = Len(old) + 1
                   /\ SubSeq(new, 1, Len(old)) = old
                \/ /\ last'.ev = "remove-annotation" /\ last'.roomId = c
                   /\ new = SelectSeq(old, LAMBDA a : a.id # last'.arg)
                \/ /\ last'.ev = "clear-annotations" /\ last'.roomId = c
                   /\ new = <<>>]_vars

\* a second annotation was added and the first one is as it was written
C28_Witness ==
    /\ last.ev \in AddEvents
    /\ server = "up"
    /\ last.roomId \in DOMAIN rooms
    /\ Len(rooms[last.roomId].annotations) = 2
    /\ rooms[last.roomId].annotations[1].type # rooms[last.roomId].annotations[2].type
    /\ rooms[last.roomId].controllerSocket # Null

\* C29: an add-* event stores every value that its payload supplies for a
\* field as it is, whatever the value (0, false, ...), and fills a default
\* only for a field that is absent.
C29_SuppliedValuesKept ==
    [][(last'.ev \in AddEvents /\ last'.roomId \in DOMAIN rooms /\ server' = "up") =>
          LET a == Stored(rooms', last'.roomId)
              d == last'.arg
          IN \A k \in DOMAIN d : d[k] # Undefined => a[k] = d[k]]_vars

RelayEvents ==
    {"tablet-movement", "touch-movement", "toggle-flashlight", "camera-position",
     "request-placement", "placement-position"}

\* C30: a relay-only event leaves the room table, every connection's binding
\* and channels, the files and the process as they are; all it does is emit.
C30_RelayChangesNothing ==
    [][last'.ev \in RelayEvents =>
          /\ rooms' = rooms
          /\ sockets' = sockets
          /\ files' = files
          /\ server' = server
          /\ now' = now
          /\ \A i \in 1..Len(last'.log) : last'.log[i].op = "emit"]_vars

\* a relay is delivered while the room's record is older than the room
C30_Witness ==
    /\ last.ev = "placement-position"
    /\ last.log # <<>>
    /\ last.log[1].to # {}
    /\ last.roomId \in DOMAIN files
    /\ ~RecordMatches(files[last.roomId], rooms[last.roomId])

\* C31: an annotation event naming an existing room is applied to that room
\* (its sequence replaced, its record written, its members told) whatever the
\* sender's binding is, bound to the room, to another room or to none, and the
\* sender's binding and channels are left as they are.
C31_PayloadCodeAuthoritative ==
    [][(/\ last'.ev \in MutationEvents
        /\ last'.roomId \in DOMAIN rooms
        /\ server' = "up") =>
          LET c == last'.roomId
          IN /\ last'.log[1] = Set(c, rooms'[c].annotations)
             /\ last'.ev \in AddEvents =>
                   Len(rooms'[c].annotations) = Len(rooms[c].annotations) + 1
             /\ last'.ev = "clear-annotations" => rooms'[c].annotations = <<>>
             /\ last'.ev = "remove-annotation" =>
                   last'.arg \notin IdsIn(rooms'[c])
             /\ c \in DOMAIN files'
             /\ SameObjects(files'[c].annotations, rooms'[c].annotations)
             /\ Len(EmitsOf(last')) = 1
             /\ EmitsOf(last')[1].to = Members(sockets, c)
             /\ sockets' = sockets]_vars

\* a connection bound to no room adds an annotation to a room, and the
\* display of the room is told
C31_Witness ==
    /\ last.ev \in AddEvents
    /\ server = "up"
    /\ last.roomId \in DOMAIN rooms
    /\ sockets[last.sock].roomId = Undefined
    /\ sockets[last.sock].joined = {}
    /\ Len(rooms[last.roomId].annotations) = 1
    /\ EmitsOf(last)[1].to = {rooms[last.roomId].displaySocket}

\* the payload of the room-wide message of an annotation event
PayloadOf(e) ==
    IF e.ev \in AddEvents THEN Stored(rooms, e.roomId)
    ELSE IF e.ev = "remove-annotation" THEN [id |-> e.arg]
    ELSE Undefined

\* C32: an annotation event on an existing room is handled in one piece: its
\* effects are, in this order and with nothing between them, the change of the
\* room's sequence, the write of the room's record and the broadcast of that
\* very change; so broadcasts are emitted in the order in which the mutations
\* were applied and persisted.
C32_HandlersRunToCompletion ==
    (last.ev \in MutationEvents /\ last.roomId \in DOMAIN rooms /\ server = "up") =>
       LET c == last.roomId
       IN /\ Len(last.log) = 3
          /\ last.log[1] = Set(c, rooms[c].annotations)
          /\ last.log[2] = Save(c)
          /\ last.log[3].op = "emit"
          /\ last.log[3].name = MessageOf(last.ev)
          /\ last.log[3].arg = PayloadOf(last)
          /\ c \in DOMAIN files
          /\ SameObjects(files[c].annotations, rooms[c].annotations)

\* a clear that follows two adds is applied, written and then broadcast to the
\* two members of the room
C32_Witness ==
    /\ last.ev = "clear-annotations"
    /\ server = "up"
    /\ last.roomId \in DOMAIN files
    /\ Len(last.log) = 3
    /\ Cardinality(last.log[3].to) = 2
    /\ files[last.roomId].annotations = <<>>

\* C33: a create-room by connection s inserts, under a code that was no key,
\* a room with display slot s, an empty controller slot and no annotations,
\* binds s to that code as display, acks {success: true, roomCode} and leaves
\* every other room, every other connection and the files as they are.
C33_CreateRoomEffects ==
    [][(last'.ev = "create-room" /\ server' = "up") =>
          LET c == last'.roomId
              s == last'.sock
          IN /\ c \notin DOMAIN rooms
             /\ DOMAIN rooms' = DOMAIN rooms \cup {c}
             /\ rooms'[c].displaySocket = s
             /\ rooms'[c].controllerSocket = Null
             /\ rooms'[c].annotations = <<>>
             /\ rooms'[c].createdAt = ISOString(now)
             /\ sockets'[s] = [sockets[s] EXCEPT !.roomId = c, !.deviceType = "display",
                                                 !.joined = @ \cup {c}]
             /\ \A t \in SocketIds \ {s} : sockets'[t] = sockets[t]
             /\ last'.log = <<Ack(s, [success |-> TRUE, roomCode |-> c])>>
             /\ \A d \in DOMAIN rooms : rooms'[d] = rooms[d]
             /\ files' = files]_vars

\* a connection creates a second room, the first keeping its controller
C33_Witness ==
    /\ last.ev = "create-room"
    /\ server = "up"
    /\ \E d \in DOMAIN rooms \ {last.roomId} :
          /\ rooms[d].displaySocket = last.sock
          /\ rooms[d].controllerSocket \in SocketIds \ {last.sock}
    /\ rooms[last.roomId].displaySocket = last.sock
    /\ rooms[last.roomId].controllerSocket = Null

\* C34: a request-placement naming a room goes, as get-placement-position, to
\* the display of the room only; and the placement-position with which that
\* display answers goes, as placement-position-response, to the connection
\* that sent the request-placement, and to no other.
C34_PlacementHandoff ==
    [][/\ last'.ev = "request-placement" =>
             RelayedTo(last', "displaySocket", "get-placement-position",
                       [type |-> last'.arg.type, callback |-> last'.arg.callback])
       /\ (/\ last.ev = "request-placement"
           /\ last.log # <<>>
           /\ last'.ev = "placement-position"
           /\ last'.roomId = last.roomId
           /\ last'.sock \in last.log[1].to)
          => /\ Len(last'.log) = 1
             /\ last'.log[1].name = "placement-position-response"
             /\ last'.log[1].to = {last.sock}]_vars

\* C35: an annotation event or a relay event that names a code which is no
\* key of the room table does nothing: no room is made, no room, binding,
\* channel or file changes, and no message is emitted.
C35_UnknownCodeDropped ==
    [][(/\ last'.ev \in MutationEvents \cup RelayEvents
        /\ last'.roomId \notin DOMAIN rooms) =>
          /\ last'.log = <<>>
          /\ rooms' = rooms
          /\ sockets' = sockets
          /\ files' = files
          /\ server' = server]_vars

\* a clear names a code that is no room while a room holds annotations
C35_Witness ==
    /\ last.ev = "clear-annotations"
    /\ last.roomId \notin DOMAIN rooms
    /\ last.log = <<>>
    /\ \E c \in DOMAIN rooms : rooms[c].annotations # <<>> /\ c \in DOMAIN files

\* C36: every non-empty slot of every room holds the id of a connection that
\* is connected.
C36_NoDanglingSlots ==
    \A c \in DOMAIN rooms, role \in Roles :
       SlotOf(rooms[c], role) # Null => sockets[SlotOf(rooms[c], role)].state = "open"

\* C37: the room-wide message of an annotation event on a room is delivered
\* only to connections that hold the display slot or the controller slot of
\* that room.
C37_BroadcastOnlyToOccupants ==
    (last.ev \in MutationEvents /\ last.roomId \in DOMAIN rooms /\ server = "up") =>
       \A i \in 1..Len(last.log) :
          last.log[i].op = "emit" => last.log[i].to \subseteq Occupants(sockets, rooms[last.roomId])

\* C38: an annotation event naming room R (whose write succeeds) changes only
\* R's annotation sequence and R's persisted record: the keys of the room
\* table, the slots and creation time of R, every other room, every other
\* record and every binding are unchanged, and no connection outside R's
\* channel group receives a message.
C38_RoomIsolation ==
    [][(last'.ev \in MutationEvents /\ server' = "up") =>
          LET c == last'.roomId
          IN /\ DOMAIN rooms' = DOMAIN rooms
             /\ \A d \in DOMAIN rooms \ {c} : rooms'[d] = rooms[d]
             /\ c \in DOMAIN rooms =>
                   rooms'[c] = [rooms[c] EXCEPT !.annotations = rooms'[c].annotations]
             /\ DOMAIN files' \subseteq DOMAIN files \cup ({c} \cap DOMAIN rooms)
             /\ \A d \in DOMAIN files \ {c} : d \in DOMAIN files' /\ files'[d] = files[d]
             /\ sockets' = sockets
             /\ \A i \in 1..Len(last'.log) : last'.log[i].to \subseteq Members(sockets, c)]_vars

\* a danger zone is added to one room while the other room, with another
\* display that is in no channel of the first, holds none and has no record
C38_Witness ==
    /\ last.ev = "add-danger-zone"
    /\ server = "up"
    /\ last.roomId \in DOMAIN files
    /\ \E d \in DOMAIN rooms \ {last.roomId} :
          /\ rooms[d].annotations = <<>>
          /\ d \notin DOMAIN files
          /\ rooms[d].displaySocket \in SocketIds
          /\ sockets[rooms[d].displaySocket].state = "open"
          /\ last.roomId \notin sockets[rooms[d].displaySocket].joined
    /\ Len(last.log) = 3
    /\ last.log[3].to # {}

\* the ids of a sequence of annotations, in order
IdsOf(annotations) == [i \in 1..Len(annotations) |-> annotations[i].id]

\* C39: for a display that holds the display slot of the room it is bound to
\* and is in no other channel, once the message of every event has been
\* applied by its page, the ids in the page's list are, in order, the ids in
\* the room's annotation sequence.
C39_PageRefinesRoom ==
    \A s \in SocketIds, c \in DOMAIN rooms :
       (/\ server = "up"
        /\ ~Pending
        /\ Open(s)
        /\ rooms[c].displaySocket = s
        /\ sockets[s].roomId = c
        /\ sockets[s].joined = {c})
       => IdsOf(local[s]) = IdsOf(rooms[c].annotations)

\* exactly four characters, each a decimal digit
IsFourDigits(text) ==
    /\ Len(text) = 4
    /\ \A i \in 1..4 : text[i] \in {"0", "1", "2", "3", "4", "5", "6", "7", "8", "9"}

\* the numbers generateRoomCode draws from, and their strings
CodeNumbers == CodeBase..(CodeBase + CodeRange - 1)
AllCodes    == {ToString(n) : n \in CodeNumbers}

\* C40: every code create-room returns is the string of a number in
\* 1000..9999, and every such string is exactly four decimal digits; so a room
\* code typed into the controller page passes its validation, the join-room
\* the page sends for it succeeds, and the page sends join-room for no text
\* that, trimmed, is not four digits, and rejects none that is.
C40_CodesPassJoinValidation ==
    /\ last.ev = "start" =>
          \A n \in CodeNumbers :
             /\ n \in 1000..9999
             /\ IsFourDigits(toString(n))
             /\ Str(toString(n)) = ToString(n)
    /\ DOMAIN rooms \subseteq AllCodes
    /\ last.ev = "create-room" => last.roomId \in AllCodes
    /\ last.ev = "join-room" =>
          /\ \E input \in JoinInputs :
                IsFourDigits(trim(input)) /\ Str(trim(input)) = last.roomId
          /\ last.roomId \in DOMAIN rooms => Succeeded(last)
    /\ last.ev = "showError" => ~IsFourDigits(trim(last.arg))

\* the code of a room, typed with blanks around it, is sent and joins the room
C40_Witness ==
    /\ last.ev = "join-room"
    /\ last.roomId \in DOMAIN rooms
    /\ Succeeded(last)
    /\ rooms[last.roomId].controllerSocket = last.sock
    /\ \E input \in JoinInputs :
          Len(input) > 4 /\ Valid(trim(input)) /\ Str(trim(input)) = last.roomId
====
